---- MODULE Spec2Model ----
(***************************************************************************)
(* The conversation store and the turn orchestrator of the persona         *)
(* steering interface: the zustand chat store, the handlers of the         *)
(* ChatInterface component (handleSend, handleGenerateUserMessage,         *)
(* handleContinue, generateAssistantMessage), its auto-run effect, and the *)
(* request builders of lib/api.                                            *)
(*                                                                         *)
(* An async handler runs synchronously up to its next await, so each       *)
(* action below is one such synchronous stretch: from an event (a click,   *)
(* an effect, a response) to the next await or to the handler's end.       *)
(* JavaScript indices are kept: the turn at index i is messages[i + 1].    *)
(***************************************************************************)
EXTENDS Integers, Sequences, FiniteSets, TLC

\* ---------------------------------------------------------------- bounds
MaxTurns == 4
MaxText == 2

\* ----------------------------------------------------------- value sets
Null == <<>>
Some(x) == <<x>>

\* texts are sequences of characters, so that concatenation is \o
UserTexts == {<<"h">>}
ResponseTexts == {<<"r">>}
FailureDetails == {"Generation failed"}
\* Number(e.target.value) of a number input: a rational num/den in lowest
\* terms, so that text such as "0.5" has a value
Num(n) == [num |-> n, den |-> 1]
Half(n) == [num |-> n, den |-> 2]

Positive(value) == value.num > 0
AtMost(value, limit) == value.num <= limit * value.den

TokenInputs == {Num(0), Num(500), Num(501)}

\* what can be typed into the number input, fractions included
TokenTexts == {Num(0 - 5), Num(0), Half(1), Num(1), Num(500), Num(501)}

DefaultNumTokens == 50
MaxNumTokens == 500

\* the steering store: pcValues maps the indices that are set to their values
DefaultPCValues == (0 :> 800) @@ (1 :> (0 - 1600)) @@ (6 :> (0 - 1800))
NoPCValues == <<>>

\* positions of the slider (multiples of its step) and of the sliders moved
SliderValues == {0 - 100, 0}
SliderIndices == {0}

\* outcomes of randomize: round(z0 * 1250) can be 0 or 1 as well
RandomPCValues ==
    {NoPCValues,
     (2 :> (0 - 1)) @@ (3 :> 1) @@ (4 :> 1250) @@ (5 :> 0) @@ (6 :> 2)
         @@ (7 :> (0 - 2))}

NotEligible == "Message is not eligible for continuation"
NoUserMessage == "Cannot generate assistant response without a user message"

Flag(b) == IF b THEN "true" ELSE "false"

VARIABLES
    messages,           \* the turn log
    isGenerating,       \* the gate
    error,              \* Null or Some(message)
    numTokens,
    continuationIndex,  \* Null or Some(index)
    autoRun,
    pcValues,           \* the steering store's pcValues
    ops,                \* the operations suspended at an await, each with its request
    trigger,            \* the auto-run effect is scheduled (its dependencies changed)
    event               \* the entry point that ran last and how it ended

vars == <<messages, isGenerating, error, numTokens, continuationIndex, autoRun,
          pcValues, ops, trigger, event>>

Deps == <<autoRun, isGenerating, messages, error>>

\* auto: the auto-run effect made the call
Event(name, result, auto) == [name |-> name, result |-> result, auto |-> auto]

\* ------------------------------------------------------------ the store
UserMessage(content) ==
    [role |-> "user", content |-> content, terminating |-> "undefined",
     generatedByModel |-> FALSE]

\* the generated human turn added with the model's role
GeneratedUserMessageAsAssistant(content, terminating) ==
    [role |-> "assistant", content |-> content, terminating |-> terminating,
     generatedByModel |-> TRUE]

GeneratedUserMessage(content, terminating) ==
    [role |-> "user", content |-> content, terminating |-> terminating,
     generatedByModel |-> TRUE]

AssistantMessage(content, terminating) ==
    [role |-> "assistant", content |-> content, terminating |-> terminating,
     generatedByModel |-> FALSE]

addMessage(msgs, message) == Append(msgs, message)

removeLastMessage(msgs) == SubSeq(msgs, 1, Len(msgs) - 1)

\* updateLastMessage(content, terminating): the last turn's content is
\* replaced, its flag too unless terminating is undefined
updateLastMessage(msgs, content, terminating) ==
    IF Len(msgs) = 0
    THEN msgs
    ELSE LET lastMessage == msgs[Len(msgs)] IN
         [msgs EXCEPT ![Len(msgs)] =
             [lastMessage EXCEPT
                 !.content = content,
                 !.terminating = IF terminating # "undefined"
                                 THEN terminating
                                 ELSE lastMessage.terminating]]

\* appendToAssistantMessage with the content replaced instead of extended
appendToAssistantMessageReplace(msgs, index, content, terminating) ==
    IF index < 0 \/ index >= Len(msgs)
    THEN msgs
    ELSE LET target == msgs[index + 1] IN
         IF target.role # "assistant"
         THEN msgs
         ELSE [msgs EXCEPT ![index + 1] =
                  [target EXCEPT !.content = content,
                                 !.terminating = terminating]]

\* appendToAssistantMessage without the test of the target's role
appendToAssistantMessageAnyRole(msgs, index, content, terminating) ==
    IF index < 0 \/ index >= Len(msgs)
    THEN msgs
    ELSE LET target == msgs[index + 1] IN
         [msgs EXCEPT ![index + 1] =
             [target EXCEPT !.content = target.content \o content,
                            !.terminating = terminating]]

\* the store's appendToAssistantMessage
appendToAssistantMessage(msgs, index, content, terminating) ==
    IF index < 0 \/ index >= Len(msgs)
    THEN msgs
    ELSE LET target == msgs[index + 1] IN
         IF target.role # "assistant"
         THEN msgs
         ELSE [msgs EXCEPT ![index + 1] =
                  [target EXCEPT !.content = target.content \o content,
                                 !.terminating = terminating]]

\* appendToMessage, which ChatInterface calls: appendToAssistantMessage
\* extended to the generated human turns
appendToMessage(msgs, index, content, terminating) ==
    IF index < 0 \/ index >= Len(msgs)
    THEN msgs
    ELSE LET target == msgs[index + 1] IN
         IF target.role = "assistant"
         THEN appendToAssistantMessage(msgs, index, content, terminating)
         ELSE IF ~target.generatedByModel
         THEN msgs
         ELSE [msgs EXCEPT ![index + 1] =
                  [target EXCEPT !.content = target.content \o content,
                                 !.terminating = terminating]]

\* -------------------------------------------------------------- lib/api
swapRoles(msgs) ==
    [i \in 1..Len(msgs) |->
        [role |-> IF msgs[i].role = "user" THEN "assistant" ELSE "user",
         content |-> msgs[i].content]]

\* ensureValidSequence without the test of the first role
ensureValidSequenceEmptyOnly(msgs) ==
    IF Len(msgs) = 0
    THEN <<[role |-> "user", content |-> <<>>]>>
    ELSE msgs

ensureValidSequence(msgs) ==
    IF Len(msgs) = 0
    THEN <<[role |-> "user", content |-> <<>>]>>
    ELSE IF msgs[1].role # "user"
         THEN <<[role |-> "user", content |-> <<>>]>> \o msgs
         ELSE msgs

\* getPCValues as its comment describes it: only the non-zero values
getPCValuesNonZero ==
    LET kept == {i \in DOMAIN pcValues : pcValues[i] # 0}
    IN [i \in kept |-> pcValues[i]]

\* the steering store's getPCValues: the entries that are not (nearly) zero
getPCValues ==
    LET kept == {i \in DOMAIN pcValues :
                    (IF pcValues[i] < 0 THEN 0 - pcValues[i] ELSE pcValues[i]) > 1}
    IN [i \in kept |-> pcValues[i]]

\* generateText called without the isPartial argument
TextRequestNotPartial(msgs, isPartial) ==
    [swapped |-> FALSE, messages |-> msgs, is_partial |-> FALSE,
     pc_values |-> getPCValues]

\* the request generateText posts: the messages exactly as they are stored
\* and the steering mapping of the moment of the call
TextRequest(msgs, isPartial) ==
    [swapped |-> FALSE, messages |-> msgs, is_partial |-> isPartial,
     pc_values |-> getPCValues]

\* generateUserMessage without the call of swapRoles
UserRequestNoSwap(msgs, isPartial) ==
    [swapped |-> TRUE,
     messages |-> ensureValidSequence(
                      [i \in 1..Len(msgs) |->
                          [role |-> msgs[i].role, content |-> msgs[i].content]]),
     is_partial |-> isPartial,
     pc_values |-> NoPCValues]

\* generateUserMessage passing the steering mapping on as generateText does
UserRequestSteered(msgs, isPartial) ==
    [swapped |-> TRUE,
     messages |-> ensureValidSequence(swapRoles(msgs)),
     is_partial |-> isPartial,
     pc_values |-> getPCValues]

\* the request generateUserMessage posts: the transcript with roles swapped
UserRequest(msgs, isPartial) ==
    [swapped |-> TRUE,
     messages |-> ensureValidSequence(swapRoles(msgs)),
     is_partial |-> isPartial,
     pc_values |-> NoPCValues]

\* ------------------------------------------------- operations in flight
\* An operation suspended at an await: the handler it belongs to, the
\* request it awaits, the log at the moment it started, and what
\* handleContinue computed before the await.
Op(kind, stage, request, index, isAssistantMessage) ==
    [kind |-> kind, stage |-> stage, request |-> request,
     start |-> messages, index |-> index,
     isAssistantMessage |-> isAssistantMessage]

Room(n) == Len(messages) + n <= MaxTurns

\* the responses folded into turns of the log so far
ExtraText(msgs) ==
    Cardinality({p \in (1..Len(msgs)) \X (2..(MaxText + 1)) :
                    p[2] <= Len(msgs[p[1]].content)})

TextRoom(index) == ExtraText(messages) < MaxText

\* which operations have a catch block around their awaits
Catches(kind) == kind # "generateAssistantMessage"

\* handleContinue's finally block without setGenerating(false)
GeneratingAfterContinueKept(o) == o.kind = "handleContinue"

\* the value every finally block gives isGenerating
GeneratingAfter(o) == FALSE

\* the catch and finally blocks of the operation that owns o
Finally(o, err) ==
    /\ isGenerating' = GeneratingAfter(o)
    /\ error' = err
    /\ continuationIndex' =
          IF o.kind = "handleContinue" THEN Null ELSE continuationIndex
    /\ ops' = ops \ {o}

Throw(o, message) == Finally(o, IF Catches(o.kind) THEN Some(message) ELSE error)

Return(o) == Finally(o, error)

\* the precondition without the test of the last role
CanReplyAnyRole(msgs) == Len(msgs) > 0

\* generateAssistantMessage's precondition
CanReply(msgs) == Len(msgs) > 0 /\ msgs[Len(msgs)].role = "user"

\* generateAssistantMessage up to its await, run for operation o on log msgs
\* when error has the value err; the caller has set isGenerating
ChainReply(o, msgs, err) ==
    IF CanReply(msgs)
    THEN /\ ops' = (ops \ {o}) \cup
                   {[o EXCEPT !.stage = "assistant",
                              !.request = TextRequest(msgs, FALSE)]}
         /\ isGenerating' = TRUE
         /\ error' = err
         /\ continuationIndex' = continuationIndex
    ELSE Throw(o, NoUserMessage)

NoOp == UNCHANGED <<messages, isGenerating, error, continuationIndex, ops>>

\* handleGenerateUserMessage chaining the reply after every response
ChainAfterUserAlways(terminating) == TRUE

\* handleGenerateUserMessage: the reply is chained when the turn is complete
ChainAfterUser(terminating) == terminating

\* handleContinue never chaining the reply
ChainAfterContinueNever(isAssistantMessage, terminating) == FALSE

\* handleContinue chaining the reply whatever the target's role
ChainAfterContinueAnyRole(isAssistantMessage, terminating) == terminating

\* handleContinue: the reply is chained after a completed human turn only
ChainAfterContinue(isAssistantMessage, terminating) ==
    ~isAssistantMessage /\ terminating

\* ---------------------------------------------------------- the handlers
\* handleSend as first written, without the gate
SendGateOff == FALSE

SendGate == isGenerating

\* handleSend replying to the log of its render, before the new turn
handleSendStaleLog(content) ==
    IF SendGate
    THEN /\ NoOp
         /\ event' = Event("handleSend", "gated", FALSE)
    ELSE LET msgs1 == addMessage(messages, UserMessage(content))
             o == Op("handleSend", "start", Null, Null, FALSE)
         IN /\ Room(2)
            /\ messages' = msgs1
            /\ ChainReply(o, messages, Null)
            /\ event' = Event("handleSend", "started", FALSE)

handleSend(content) ==
    IF SendGate
    THEN /\ NoOp
         /\ event' = Event("handleSend", "gated", FALSE)
    ELSE LET msgs1 == addMessage(messages, UserMessage(content))
             o == Op("handleSend", "start", Null, Null, FALSE)
         IN /\ Room(2)
            /\ messages' = msgs1
            /\ ChainReply(o, msgs1, Null)
            /\ event' = Event("handleSend", "started", FALSE)

\* handleGenerateUserMessage without the gate
GenerateGateOff == FALSE

GenerateGate == isGenerating

\* handleGenerateUserMessage without setError(null)
handleGenerateUserMessageKeepsError(auto) ==
    IF GenerateGate
    THEN /\ NoOp
         /\ event' = Event("handleGenerateUserMessage", "gated", auto)
    ELSE /\ Room(2)
         /\ messages' = messages
         /\ error' = error
         /\ isGenerating' = TRUE
         /\ continuationIndex' = continuationIndex
         /\ ops' = ops \cup {Op("handleGenerateUserMessage", "user",
                                UserRequest(messages, FALSE), Null, FALSE)}
         /\ event' = Event("handleGenerateUserMessage", "started", auto)

handleGenerateUserMessage(auto) ==
    IF GenerateGate
    THEN /\ NoOp
         /\ event' = Event("handleGenerateUserMessage", "gated", auto)
    ELSE /\ Room(2)
         /\ messages' = messages
         /\ error' = Null
         /\ isGenerating' = TRUE
         /\ continuationIndex' = continuationIndex
         /\ ops' = ops \cup {Op("handleGenerateUserMessage", "user",
                                UserRequest(messages, FALSE), Null, FALSE)}
         /\ event' = Event("handleGenerateUserMessage", "started", auto)

\* handleContinue without the gate
ContinueGateOff == FALSE

ContinueGate == isGenerating

\* the eligibility test without the terminating flag
ContinueEligibleAnyFlag(msgs, index) ==
    /\ index = Len(msgs) - 1
    /\ index >= 0
    /\ LET targetMessage == msgs[index + 1] IN
          \/ targetMessage.role = "assistant"
          \/ targetMessage.role = "user" /\ targetMessage.generatedByModel

ContinueEligible(msgs, index) ==
    /\ index = Len(msgs) - 1
    /\ index >= 0
    /\ LET targetMessage == msgs[index + 1] IN
          /\ \/ targetMessage.role = "assistant"
             \/ targetMessage.role = "user" /\ targetMessage.generatedByModel
          /\ targetMessage.terminating = "false"

handleContinue(index, auto) ==
    IF ContinueGate
    THEN /\ NoOp
         /\ event' = Event("handleContinue", "gated", auto)
    ELSE IF ~ContinueEligible(messages, index)
    THEN /\ messages' = messages
         /\ Throw(Op("handleContinue", "start", Null, Some(index), FALSE),
                  NotEligible)
         /\ event' = Event("handleContinue", "threw", auto)
    ELSE LET isAssistantMessage == messages[index + 1].role = "assistant" IN
         /\ Room(IF isAssistantMessage THEN 0 ELSE 1)
         /\ TextRoom(index)
         /\ messages' = messages
         /\ error' = Null
         /\ isGenerating' = TRUE
         /\ continuationIndex' = Some(index)
         /\ ops' = ops \cup
               {Op("handleContinue", "continue",
                   IF isAssistantMessage
                   THEN TextRequest(messages, TRUE)
                   ELSE UserRequest(messages, TRUE),
                   Some(index), isAssistantMessage)}
         /\ event' = Event("handleContinue", "started", auto)

\* generateAssistantMessage() with manageGenerating = true
generateAssistantMessage(auto) ==
    LET o == Op("generateAssistantMessage", "start", Null, Null, FALSE) IN
    /\ Room(1)
    /\ messages' = messages
    /\ ChainReply(o, messages, error)
    /\ event' = Event("generateAssistantMessage",
                      IF CanReply(messages) THEN "started" ELSE "threw", auto)

\* --------------------------------------------------------------- Init
Init ==
    /\ messages = <<>>
    /\ isGenerating = FALSE
    /\ error = Null
    /\ numTokens = Num(DefaultNumTokens)
    /\ continuationIndex = Null
    /\ autoRun = FALSE
    /\ pcValues = DefaultPCValues
    /\ ops = {}
    /\ trigger = TRUE
    /\ event = Event("mount", "done", FALSE)

\* ----------------------------------------------------------- the actions
\* the effect runs again after a render in which a dependency changed
DepsChanged == Deps' # Deps

\* InputArea's Send button and Enter key
Send ==
    \E content \in UserTexts :
        /\ handleSend(content)
        /\ UNCHANGED <<numTokens, autoRun, pcValues>>
        /\ trigger' = (trigger \/ DepsChanged)

\* InputArea's "Generate user message" button
GenerateUserMessage ==
    /\ handleGenerateUserMessage(FALSE)
    /\ UNCHANGED <<numTokens, autoRun, pcValues>>
    /\ trigger' = (trigger \/ DepsChanged)

\* the "Continue message" button, rendered on the turn that can continue
canContinue(msgs, idx) ==
    /\ idx = Len(msgs) - 1
    /\ msgs[idx + 1].terminating = "false"
    /\ \/ msgs[idx + 1].role = "assistant"
       \/ msgs[idx + 1].role = "user" /\ msgs[idx + 1].generatedByModel

Continue ==
    \E idx \in 0..(Len(messages) - 1) :
        /\ canContinue(messages, idx)
        /\ ~(continuationIndex = Some(idx) /\ isGenerating)
        /\ handleContinue(idx, FALSE)
        /\ UNCHANGED <<numTokens, autoRun, pcValues>>
        /\ trigger' = (trigger \/ DepsChanged)

\* the Clear button disabled on an empty log only
ClearDisabledEmptyOnly == Len(messages) = 0

\* the Clear button, disabled while generating or when the log is empty
ClearDisabled == isGenerating \/ Len(messages) = 0

\* clearMessages of the first store, which has no continuationIndex
clearMessagesLogOnly ==
    /\ messages' = <<>>
    /\ UNCHANGED <<continuationIndex, isGenerating, error, numTokens, autoRun,
                   pcValues, ops>>

\* the store's clearMessages
clearMessages ==
    /\ messages' = <<>>
    /\ continuationIndex' = Null
    /\ UNCHANGED <<isGenerating, error, numTokens, autoRun, pcValues, ops>>

Clear ==
    /\ ~ClearDisabled
    /\ clearMessages
    /\ event' = Event("clearMessages", "done", FALSE)
    /\ trigger' = (trigger \/ DepsChanged)

\* the Auto-run checkbox
ToggleAutoRun ==
    /\ autoRun' = ~autoRun
    /\ UNCHANGED <<messages, isGenerating, error, numTokens, continuationIndex,
                   pcValues, ops>>
    /\ event' = Event("setAutoRun", "done", FALSE)
    /\ trigger' = (trigger \/ DepsChanged)

\* TokenControls' number input
handleChange(value) ==
    /\ numTokens' = IF Positive(value) /\ AtMost(value, MaxNumTokens)
                    THEN value
                    ELSE numTokens
    /\ UNCHANGED <<messages, isGenerating, error, continuationIndex, autoRun,
                   pcValues, ops>>
    /\ event' = Event("setNumTokens", "done", FALSE)
    /\ trigger' = (trigger \/ DepsChanged)

ChangeTokens == \E value \in TokenInputs : handleChange(value)

\* runAuto's canContinue as the first ChatInterface had it: model turns only
AutoCanContinueAssistantOnly(lastMessage) ==
    /\ lastMessage.terminating = "false"
    /\ lastMessage.role = "assistant"

\* runAuto's canContinue with terminating !== true in place of === false
AutoCanContinueUnlessTrue(lastMessage) ==
    /\ lastMessage.terminating # "true"
    /\ \/ lastMessage.role = "assistant"
       \/ lastMessage.role = "user" /\ lastMessage.generatedByModel

\* runAuto's canContinue
AutoCanContinue(lastMessage) ==
    /\ lastMessage.terminating = "false"
    /\ \/ lastMessage.role = "assistant"
       \/ lastMessage.role = "user" /\ lastMessage.generatedByModel

\* runAuto without the branch that replies to a synthetic human turn
AutoDecisionNoReply(msgs) ==
    IF Len(msgs) = 0 THEN "user"
    ELSE LET lastMessage == msgs[Len(msgs)] IN
         IF AutoCanContinue(lastMessage)
         THEN "continue"
         ELSE IF lastMessage.role = "assistant" /\ lastMessage.terminating # "false"
         THEN "user"
         ELSE "none"

\* runAuto without the branch that seeds a human turn after a model turn
AutoDecisionNoSeed(msgs) ==
    IF Len(msgs) = 0 THEN "user"
    ELSE LET lastMessage == msgs[Len(msgs)]
             isModelGeneratedUser ==
                 lastMessage.role = "user" /\ lastMessage.generatedByModel
         IN IF AutoCanContinue(lastMessage)
            THEN "continue"
            ELSE IF isModelGeneratedUser /\ lastMessage.terminating # "false"
            THEN "assistant"
            ELSE "none"

\* what runAuto decides for a log
AutoDecision(msgs) ==
    IF Len(msgs) = 0 THEN "user"
    ELSE LET lastIndex == Len(msgs) - 1
             lastMessage == msgs[lastIndex + 1]
             isModelGeneratedUser ==
                 lastMessage.role = "user" /\ lastMessage.generatedByModel
         IN IF AutoCanContinue(lastMessage)
            THEN "continue"
            ELSE IF isModelGeneratedUser /\ lastMessage.terminating # "false"
            THEN "assistant"
            ELSE IF lastMessage.role = "assistant" /\ lastMessage.terminating # "false"
            THEN "user"
            ELSE "none"

runAuto ==
    LET decision == AutoDecision(messages) IN
    CASE decision = "user" -> handleGenerateUserMessage(TRUE)
      [] decision = "continue" -> handleContinue(Len(messages) - 1, TRUE)
      [] decision = "assistant" -> generateAssistantMessage(TRUE)
      [] OTHER -> /\ NoOp
                  /\ event' = Event("runAuto", "none", TRUE)

\* the guard without the test of autoRun
AutoGuardNoAutoRun == isGenerating \/ error # Null

\* the guard without the test of error
AutoGuardNoError == ~autoRun \/ isGenerating

\* the guard without the test of isGenerating
AutoGuardNoGenerating == ~autoRun \/ error # Null

\* the effect's guard
AutoGuard == ~autoRun \/ isGenerating \/ error # Null

AutoRunEffect ==
    /\ trigger
    /\ IF AutoGuard
       THEN /\ NoOp
            /\ event' = Event("effect", "skipped", TRUE)
       ELSE runAuto
    /\ UNCHANGED <<numTokens, autoRun, pcValues>>
    /\ trigger' = DepsChanged

\* the collaborator answers the request of operation o
RespondOk(o, content, terminating) ==
    /\ CASE o.stage = "user" ->
              LET msgs1 == addMessage(messages,
                               GeneratedUserMessage(content, Flag(terminating)))
              IN /\ messages' = msgs1
                 /\ IF ChainAfterUser(terminating)
                    THEN ChainReply(o, msgs1, error)
                    ELSE Return(o)
         [] o.stage = "continue" ->
              LET msgs1 == appendToMessage(messages, o.index[1], content,
                                           Flag(terminating))
              IN /\ messages' = msgs1
                 /\ IF ChainAfterContinue(o.isAssistantMessage, terminating)
                    THEN ChainReply(o, msgs1, error)
                    ELSE Return(o)
         [] o.stage = "assistant" ->
              /\ messages' = addMessage(messages,
                                 AssistantMessage(content, Flag(terminating)))
              /\ Return(o)
    /\ UNCHANGED <<numTokens, autoRun, pcValues>>
    /\ event' = Event(o.kind, "response", FALSE)
    /\ trigger' = (trigger \/ DepsChanged)

\* the request of operation o fails
RespondFail(o, detail) ==
    /\ messages' = messages
    /\ Throw(o, detail)
    /\ UNCHANGED <<numTokens, autoRun, pcValues>>
    /\ event' = Event(o.kind, "failure", FALSE)
    /\ trigger' = (trigger \/ DepsChanged)

Respond ==
    \E o \in ops :
        \/ \E content \in ResponseTexts, terminating \in BOOLEAN :
               RespondOk(o, content, terminating)
        \/ \E detail \in FailureDetails : RespondFail(o, detail)

Next ==
    \/ Send
    \/ GenerateUserMessage
    \/ Continue
    \/ Clear
    \/ ToggleAutoRun
    \/ ChangeTokens
    \/ AutoRunEffect
    \/ Respond

Spec == Init /\ [][Next]_vars

\* ------------------------------------- the store and handlers called directly
\* Spec above is the session as the components wire it.  SpecStore adds a
\* caller of the store's removeLastMessage, which no component has.  SpecApi
\* is the handlers called directly, with auto-run off: handleContinue on any
\* index and generateAssistantMessage on any log, as the effect calls it.
Indices == (0 - 1)..MaxTurns

RemoveLast ==
    /\ ~isGenerating
    /\ Len(messages) > 0
    /\ messages' = removeLastMessage(messages)
    /\ continuationIndex' = Null
    /\ UNCHANGED <<isGenerating, error, numTokens, autoRun, pcValues, ops>>
    /\ event' = Event("removeLastMessage", "done", FALSE)
    /\ trigger' = (trigger \/ DepsChanged)

\* clearMessages called whatever the state, also during a request
ClearMessages ==
    /\ clearMessages
    /\ event' = Event("clearMessages", "done", FALSE)
    /\ trigger' = (trigger \/ DepsChanged)

ContinueAt(index) ==
    /\ handleContinue(index, FALSE)
    /\ UNCHANGED <<numTokens, autoRun, pcValues>>
    /\ trigger' = (trigger \/ DepsChanged)

ContinueAny == \E index \in Indices : ContinueAt(index)

Reply ==
    /\ ~isGenerating
    /\ generateAssistantMessage(FALSE)
    /\ UNCHANGED <<numTokens, autoRun, pcValues>>
    /\ trigger' = (trigger \/ DepsChanged)

NextStore == Next \/ RemoveLast

SpecStore == Init /\ [][NextStore]_vars

NextApi ==
    \/ Send
    \/ GenerateUserMessage
    \/ Clear
    \/ Respond
    \/ ContinueAny
    \/ Reply

SpecApi == Init /\ [][NextApi]_vars

\* SpecClear is the store's clearMessages called in every state, also
\* during a request, next to the buttons that build a log and set the
\* status fields; the auto-run effect is left out.
NextClear ==
    \/ GenerateUserMessage
    \/ Continue
    \/ Respond
    \/ ToggleAutoRun
    \/ ChangeTokens
    \/ Clear
    \/ ClearMessages

SpecClear == Init /\ [][NextClear]_vars

\* updateLastMessage called with any content and flag
UpdateTexts == {<<"u">>}

UpdateLast ==
    \E content \in UpdateTexts, terminating \in {"undefined", "true"} :
        /\ messages' = updateLastMessage(messages, content, terminating)
        /\ UNCHANGED <<isGenerating, error, numTokens, continuationIndex, autoRun,
                       pcValues, ops>>
        /\ event' = Event("updateLastMessage", "done", FALSE)
        /\ trigger' = (trigger \/ DepsChanged)

\* SpecUpdate is the buttons that build a log next to a caller of the
\* store's updateLastMessage, which no component has.
NextUpdate ==
    \/ Send
    \/ GenerateUserMessage
    \/ Respond
    \/ UpdateLast

SpecUpdate == Init /\ [][NextUpdate]_vars

\* SpecAnyLog starts from any log of up to MaxInitLog turns, also one the
\* handlers never build, and applies the request builders to it.
MaxInitLog == 2

InitTurns ==
    {UserMessage(content) : content \in UserTexts}
    \cup {GeneratedUserMessage(content, Flag(t)) :
              content \in ResponseTexts, t \in BOOLEAN}
    \cup {AssistantMessage(content, Flag(t)) :
              content \in ResponseTexts, t \in BOOLEAN}
    \cup {GeneratedUserMessage(content, "undefined") : content \in ResponseTexts}
    \cup {AssistantMessage(content, "undefined") : content \in ResponseTexts}

InitAnyLog ==
    /\ messages \in UNION {[1..n -> InitTurns] : n \in 0..MaxInitLog}
    /\ isGenerating = FALSE
    /\ error = Null
    /\ numTokens = Num(DefaultNumTokens)
    /\ continuationIndex = Null
    /\ autoRun = FALSE
    /\ pcValues = DefaultPCValues
    /\ ops = {}
    /\ trigger = TRUE
    /\ event = Event("mount", "done", FALSE)

NextAnyLog ==
    \/ GenerateUserMessage
    \/ ContinueAny
    \/ Respond

SpecAnyLog == InitAnyLog /\ [][NextAnyLog]_vars

\* SpecAnyLogAuto adds the auto-run checkbox and effect to SpecAnyLog.
NextAnyLogAuto == NextAnyLog \/ ToggleAutoRun \/ AutoRunEffect

SpecAnyLogAuto == InitAnyLog /\ [][NextAnyLogAuto]_vars

\* the number input of TokenControls with any text typed into it
ChangeTokensTyped == \E value \in TokenTexts : handleChange(value)

\* SpecTokens is the handlers next to the number input with typed text.
NextTokens == NextApi \/ ChangeTokensTyped

SpecTokens == Init /\ [][NextTokens]_vars

\* ------------------------------------------------------ the steering panel
ChatUnchanged ==
    UNCHANGED <<messages, isGenerating, error, numTokens, continuationIndex,
                autoRun, ops, trigger>>

\* a slider moved: setPCValue(pcIndex, Number(e.target.value))
SetPCValue ==
    \E pcIndex \in SliderIndices, value \in SliderValues :
        /\ pcValues' = [i \in DOMAIN pcValues \cup {pcIndex} |->
                            IF i = pcIndex THEN value ELSE pcValues[i]]
        /\ ChatUnchanged
        /\ event' = Event("setPCValue", "done", FALSE)

\* a slider's Reset button, disabled when the slider shows 0
ResetPC ==
    \E pcIndex \in SliderIndices :
        /\ pcIndex \in DOMAIN pcValues
        /\ pcValues[pcIndex] # 0
        /\ pcValues' = [i \in DOMAIN pcValues \ {pcIndex} |-> pcValues[i]]
        /\ ChatUnchanged
        /\ event' = Event("resetPC", "done", FALSE)

\* the Reset All button, disabled when no entry differs from 0
ResetAll ==
    /\ \E i \in DOMAIN pcValues : pcValues[i] # 0
    /\ pcValues' = NoPCValues
    /\ ChatUnchanged
    /\ event' = Event("resetAll", "done", FALSE)

\* the Randomize button
Randomize ==
    /\ pcValues' \in RandomPCValues
    /\ ChatUnchanged
    /\ event' = Event("randomize", "done", FALSE)

\* SpecSteering is the buttons that issue requests next to the steering panel.
NextSteering ==
    \/ GenerateUserMessage
    \/ Continue
    \/ Respond
    \/ SetPCValue
    \/ ResetPC
    \/ ResetAll
    \/ Randomize

SpecSteering == Init /\ [][NextSteering]_vars

\* the collaborator answers the request of some operation
RespondSuccess ==
    \E o \in ops, content \in ResponseTexts, terminating \in BOOLEAN :
        RespondOk(o, content, terminating)

\* SpecAuto is the session of Spec without the token input, whose value
\* changes no decision of a handler or of the effect.  In FairSpecAuto the effect runs after every render that
\* schedules it and every request is eventually answered.
NextAuto ==
    \/ Send
    \/ GenerateUserMessage
    \/ Continue
    \/ Clear
    \/ ToggleAutoRun
    \/ AutoRunEffect
    \/ Respond

SpecAuto == Init /\ [][NextAuto]_vars

FairSpecAuto == SpecAuto /\ WF_vars(AutoRunEffect) /\ WF_vars(RespondSuccess)

\* the collaborator eventually answers or fails every request
FairSpecApi == SpecApi /\ WF_vars(Respond)

\* ----------------------------------------------------------- properties
LastOf(msgs) == msgs[Len(msgs)]

SameUpTo(msgs1, msgs2, n) == \A i \in 1..n : msgs1[i] = msgs2[i]

\* C1: in every reachable state at most one turn has terminating = false,
\* and such a turn is the last turn of the log.
C1_OneNonTerminatingAndLast ==
    /\ Cardinality({i \in 1..Len(messages) : messages[i].terminating = "false"}) <= 1
    /\ \A i \in 1..Len(messages) :
          messages[i].terminating = "false" => i = Len(messages)

\* C2: at most one operation is in progress, and so at most one request is
\* outstanding, in every reachable state.
C2_OneOperationInFlight == Cardinality(ops) <= 1

C2_Witness ==
    /\ Cardinality(ops) = 1
    /\ event.result = "gated"

\* C3: when a request fails, the log after the operation has ended equals
\* the log at the moment the operation started.
C3_FailureRestoresStartLog ==
    [][\A o \in ops, detail \in FailureDetails :
          RespondFail(o, detail) => messages' = o.start]_vars

\* C4: once an operation has ended with a collaborator failure, error holds
\* a message.
C4_FailureRecorded == event.result = "failure" => error # Null

\* C5: whenever no operation is in progress isGenerating is false, and
\* whenever isGenerating is true it is eventually false again.
C5_GeneratingReset ==
    /\ [](ops = {} => ~isGenerating)
    /\ isGenerating ~> ~isGenerating

C5_Witness ==
    /\ event = Event("handleContinue", "threw", FALSE)
    /\ ~isGenerating
    /\ ops = {}

\* C6: handleSend called while isGenerating is true changes neither the
\* log, nor a status field, nor the requests in flight.
C6_GatedSendIsNoOp ==
    [][(isGenerating /\ Send) =>
          UNCHANGED <<messages, isGenerating, error, continuationIndex,
                      autoRun, numTokens, ops>>]_vars

C6_Witness ==
    /\ event = Event("handleSend", "gated", FALSE)
    /\ isGenerating
    /\ ops # {}

\* the indices C7 speaks of: not the last index, or a turn whose
\* terminating flag is not exactly false
NotContinuable(index) ==
    \/ index # Len(messages) - 1
    \/ index < 0
    \/ messages[index + 1].terminating # "false"

ContinueFailed ==
    /\ ops' = ops
    /\ messages' = messages
    /\ error' # Null
    /\ ~isGenerating'
    /\ continuationIndex' = Null

\* C7 as stated: handleContinue(i) on such an index issues no request,
\* leaves the log unchanged, and leaves error set, isGenerating false and
\* continuationIndex unset.
C7_IneligibleContinueFails ==
    [][\A index \in Indices :
          (ContinueAt(index) /\ NotContinuable(index)) => ContinueFailed]_vars

\* C7 (amended): the same, for handleContinue(i) called while isGenerating
\* is false; a call while isGenerating is true returns at the gate, sets no
\* error and leaves isGenerating true.
C7_IneligibleContinueFailsWhenIdle ==
    [][\A index \in Indices :
          (~isGenerating /\ ContinueAt(index) /\ NotContinuable(index))
              => ContinueFailed]_vars

C7_Witness ==
    /\ event = Event("handleContinue", "threw", FALSE)
    /\ error = Some(NotEligible)
    /\ Len(messages) > 0
    /\ LastOf(messages).terminating = "false"

\* C8: a model-reply request is issued, and a model turn appended, only
\* when the log is non-empty and ends in a human turn; called on an empty
\* log or a log ending in a model turn, generateAssistantMessage throws
\* without issuing a request or appending.
C8_ReplyNeedsHumanTurn ==
    [][/\ \A o \in ops' \ ops :
             o.stage = "assistant" =>
                 /\ Len(messages') > 0
                 /\ LastOf(messages').role = "user"
                 /\ o.request.messages = messages'
       /\ (Len(messages') = Len(messages) + 1 /\ LastOf(messages').role = "assistant")
             => (Len(messages) > 0 /\ LastOf(messages).role = "user")
       /\ (Reply /\ (Len(messages) = 0 \/ LastOf(messages).role = "assistant"))
             => /\ ops' = ops
                /\ messages' = messages
                /\ event'.result = "threw"]_vars

C8_Witness ==
    /\ event = Event("generateAssistantMessage", "threw", FALSE)
    /\ Len(messages) > 0
    /\ LastOf(messages).role = "assistant"
    /\ ops = {}

\* the log on which runAuto generates a synthetic human turn
SeedCase ==
    \/ Len(messages) = 0
    \/ /\ LastOf(messages).role = "assistant"
       /\ LastOf(messages).terminating # "false"

\* C9: an auto-run step on an empty log, or on a log ending in a model turn
\* whose terminating flag is not false, issues one swapped-roles request
\* with is_partial false; its response is appended as a human turn with
\* generatedByModel true and the returned terminating flag.
C9_AutoSeedsSyntheticHuman ==
    [][/\ (AutoRunEffect /\ ~AutoGuard /\ SeedCase) =>
             /\ messages' = messages
             /\ \E o \in ops' :
                   /\ ops = {}
                   /\ ops' = {o}
                   /\ o.kind = "handleGenerateUserMessage"
                   /\ o.request.swapped
                   /\ ~o.request.is_partial
                   /\ \E k \in 0..1 :
                         /\ Len(o.request.messages) = Len(messages) + k
                         /\ \A i \in 1..Len(messages) :
                               /\ o.request.messages[i + k].role # messages[i].role
                               /\ o.request.messages[i + k].content = messages[i].content
       /\ \A o \in ops, content \in ResponseTexts, terminating \in BOOLEAN :
             (o.kind = "handleGenerateUserMessage" /\ o.stage = "user"
                 /\ RespondOk(o, content, terminating)) =>
                 /\ Len(messages') = Len(messages) + 1
                 /\ SameUpTo(messages', messages, Len(messages))
                 /\ LastOf(messages').role = "user"
                 /\ LastOf(messages').generatedByModel
                 /\ LastOf(messages').content = content
                 /\ LastOf(messages').terminating = Flag(terminating)]_vars

C9_Witness ==
    /\ event = Event("handleGenerateUserMessage", "started", TRUE)
    /\ Len(messages) > 0
    /\ LastOf(messages).role = "assistant"
    /\ LastOf(messages).terminating = "true"
    /\ \E o \in ops : o.request.swapped /\ ~o.request.is_partial

\* the log on which runAuto continues the last turn
ContinueCase ==
    /\ Len(messages) > 0
    /\ LastOf(messages).terminating = "false"
    /\ \/ LastOf(messages).role = "assistant"
       \/ LastOf(messages).role = "user" /\ LastOf(messages).generatedByModel

TurnsOf(msgs, role) == Cardinality({i \in 1..Len(msgs) : msgs[i].role = role})

\* C10: an auto-run step on a log whose last turn has terminating = false
\* and is a model turn or a synthetic human turn issues one request with
\* is_partial true for that turn's speaker (swapped for a human turn), and
\* its response adds no turn of that speaker.
C10_AutoContinuesLastTurn ==
    [][/\ (AutoRunEffect /\ ~AutoGuard /\ ContinueCase) =>
             /\ messages' = messages
             /\ continuationIndex' = Some(Len(messages) - 1)
             /\ \E o \in ops' :
                   /\ ops = {}
                   /\ ops' = {o}
                   /\ o.kind = "handleContinue"
                   /\ o.stage = "continue"
                   /\ o.index = Some(Len(messages) - 1)
                   /\ o.request.is_partial
                   /\ o.request.swapped = (LastOf(messages).role = "user")
       /\ \A o \in ops, content \in ResponseTexts, terminating \in BOOLEAN :
             (o.stage = "continue" /\ RespondOk(o, content, terminating)) =>
                 LET target == messages[o.index[1] + 1] IN
                 /\ TurnsOf(messages', target.role) = TurnsOf(messages, target.role)
                 /\ messages'[o.index[1] + 1].role = target.role
                 /\ Len(messages') >= Len(messages)]_vars

C10_Witness ==
    /\ event = Event("handleContinue", "started", TRUE)
    /\ LastOf(messages).role = "user"
    /\ LastOf(messages).generatedByModel
    /\ LastOf(messages).terminating = "false"
    /\ continuationIndex = Some(Len(messages) - 1)
    /\ \E o \in ops : o.request.swapped /\ o.request.is_partial

\* the log on which runAuto replies directly: a complete synthetic human turn
ReplyCase ==
    /\ Len(messages) > 0
    /\ LastOf(messages).role = "user"
    /\ LastOf(messages).generatedByModel
    /\ LastOf(messages).terminating = "true"

\* C11: an auto-run step on a log ending in a synthetic human turn with
\* terminating = true issues one request, not swapped, with is_partial
\* false, for the log as it is; its response is appended as a model turn.
C11_AutoRepliesToSyntheticHuman ==
    [][/\ (AutoRunEffect /\ ~AutoGuard /\ ReplyCase) =>
             /\ messages' = messages
             /\ \E o \in ops' :
                   /\ ops = {}
                   /\ ops' = {o}
                   /\ o.kind = "generateAssistantMessage"
                   /\ o.stage = "assistant"
                   /\ o.request = TextRequest(messages, FALSE)
                   /\ ~o.request.swapped
                   /\ ~o.request.is_partial
       /\ \A o \in ops, content \in ResponseTexts, terminating \in BOOLEAN :
             (o.kind = "generateAssistantMessage"
                 /\ RespondOk(o, content, terminating)) =>
                 /\ messages' = Append(messages,
                                   AssistantMessage(content, Flag(terminating)))
                 /\ ops' = {}]_vars

C11_Witness ==
    /\ event = Event("generateAssistantMessage", "response", FALSE)
    /\ Len(messages) >= 2
    /\ LastOf(messages).role = "assistant"
    /\ messages[Len(messages) - 1].role = "user"
    /\ messages[Len(messages) - 1].generatedByModel
    /\ messages[Len(messages) - 1].terminating = "true"

\* the log that ends in a typed human turn
TypedCase ==
    /\ Len(messages) > 0
    /\ LastOf(messages).role = "user"
    /\ ~LastOf(messages).generatedByModel
    /\ LastOf(messages).terminating # "false"

\* C12: an auto-run step on a log ending in a typed human turn whose
\* terminating flag is true or unset issues a model-reply request for the
\* log, and its response is appended as a model turn.
C12_AutoRepliesToTypedHuman ==
    [][(AutoRunEffect /\ ~AutoGuard /\ TypedCase) =>
          \E o \in ops' \ ops :
              /\ o.stage = "assistant"
              /\ o.request = TextRequest(messages, FALSE)]_vars

StatusUnchanged ==
    UNCHANGED <<messages, isGenerating, error, numTokens, continuationIndex,
                autoRun, ops>>

\* C13: when handleGenerateUserMessage receives a response with
\* terminating = true, the synthetic human turn is appended and the model
\* reply is requested in the same step with isGenerating still true; the
\* effect does nothing while the operation is in flight; the reply is
\* appended after the synthetic human turn.  With terminating = false the
\* operation ends, no reply is requested and the log has grown by one turn.
C13_SyntheticHumanCascade ==
    /\ [](\A o \in ops : o.kind = "handleGenerateUserMessage" => isGenerating)
    /\ [][/\ \A o \in ops, content \in ResponseTexts, terminating \in BOOLEAN :
                (o.kind = "handleGenerateUserMessage" /\ o.stage = "user"
                    /\ RespondOk(o, content, terminating)) =>
                    IF terminating
                    THEN /\ isGenerating /\ isGenerating'
                         /\ messages' = Append(messages,
                                           GeneratedUserMessage(content, "true"))
                         /\ \E o2 \in ops' :
                               /\ ops' = {o2}
                               /\ o2.kind = "handleGenerateUserMessage"
                               /\ o2.stage = "assistant"
                               /\ o2.request = TextRequest(messages', FALSE)
                    ELSE /\ ops' = {}
                         /\ ~isGenerating'
                         /\ Len(messages') = Len(messages) + 1
                         /\ SameUpTo(messages', messages, Len(messages))
          /\ \A o \in ops, content \in ResponseTexts, terminating \in BOOLEAN :
                (o.kind = "handleGenerateUserMessage" /\ o.stage = "assistant"
                    /\ RespondOk(o, content, terminating)) =>
                    /\ isGenerating
                    /\ LastOf(messages).role = "user"
                    /\ LastOf(messages).generatedByModel
                    /\ LastOf(messages).terminating = "true"
                    /\ messages' = Append(messages,
                                      AssistantMessage(content, Flag(terminating)))
                    /\ Len(messages') = Len(o.start) + 2
          /\ (AutoRunEffect /\ \E o \in ops : o.kind = "handleGenerateUserMessage")
                => (StatusUnchanged /\ event'.result = "skipped")]_vars

C13_Witness ==
    /\ autoRun
    /\ event = Event("effect", "skipped", TRUE)
    /\ \E o \in ops :
          /\ o.kind = "handleGenerateUserMessage"
          /\ o.stage = "assistant"
          /\ o.start = <<>>
    /\ Len(messages) = 1
    /\ LastOf(messages).generatedByModel
    /\ LastOf(messages).terminating = "true"

\* C14: while error is set the effect issues no request and changes no
\* state, also with autoRun true and isGenerating false; error goes from
\* set to unset only in a handler the user started.
C14_ErrorStopsAutoRun ==
    [][/\ (AutoRunEffect /\ error # Null) => StatusUnchanged
       /\ (error # Null /\ error' = Null) =>
             /\ Send \/ GenerateUserMessage \/ Continue
             /\ ~event'.auto
             /\ event'.result = "started"]_vars

C14_Witness ==
    /\ event = Event("effect", "skipped", TRUE)
    /\ autoRun
    /\ ~isGenerating
    /\ error # Null
    /\ ~trigger

\* C15: a failed request ends its operation without a further request, and
\* the effect that runs next after the failure issues none.
C15_NoAutomaticRetry ==
    [][/\ \A o \in ops, detail \in FailureDetails :
             RespondFail(o, detail) => ops' = ops \ {o}
       /\ (event.result = "failure" /\ AutoRunEffect) => ops' = ops]_vars

\* C16: the effect run while isGenerating is true issues no request and
\* changes neither the log nor a status field; it is scheduled again only
\* by a change of its dependencies, and it acts only while isGenerating is
\* false.
C16_TriggerWhileGeneratingIgnored ==
    [][/\ (AutoRunEffect /\ isGenerating) => (StatusUnchanged /\ ~trigger')
       /\ (AutoRunEffect /\ ~StatusUnchanged) => ~isGenerating
       /\ (~trigger /\ trigger') => Deps' # Deps]_vars

C16_Witness ==
    /\ event = Event("effect", "skipped", TRUE)
    /\ autoRun
    /\ isGenerating
    /\ error = Null
    /\ ops # {}
    /\ ~trigger

\* C17: clearMessages empties the log and unsets continuationIndex, and
\* leaves autoRun, numTokens, isGenerating, error and the requests in
\* flight as they were.
C17_ClearFrame ==
    [][(Clear \/ ClearMessages) =>
          /\ messages' = <<>>
          /\ continuationIndex' = Null
          /\ UNCHANGED <<autoRun, numTokens, isGenerating, error, ops>>]_vars

C17_Witness ==
    /\ event = Event("clearMessages", "done", FALSE)
    /\ messages = <<>>
    /\ continuationIndex = Null
    /\ \E o \in ops : o.kind = "handleContinue" /\ o.index # Null
    /\ autoRun
    /\ numTokens # Num(DefaultNumTokens)

\* what the effect does on an empty log, and what its response makes of it
RestartOnEmptyLog ==
    /\ (AutoRunEffect /\ ~AutoGuard /\ messages = <<>>) =>
          /\ messages' = <<>>
          /\ \E o \in ops' :
                /\ ops' = {o}
                /\ o.kind = "handleGenerateUserMessage"
                /\ o.stage = "user"
          /\ event' = Event("handleGenerateUserMessage", "started", TRUE)
    /\ \A o \in ops, content \in ResponseTexts, terminating \in BOOLEAN :
          (o.stage = "user" /\ messages = <<>> /\ RespondOk(o, content, terminating)) =>
              /\ Len(messages') = 1
              /\ messages'[1].role = "user"
              /\ messages'[1].generatedByModel

\* C18: after Clear with autoRun true the effect is scheduled, its guard
\* lets it run, and what it does on the empty log is generate a synthetic
\* human turn, which becomes the first turn of the new log.
C18_ClearRestartsAutoRun ==
    [][/\ (Clear /\ autoRun) =>
             /\ trigger'
             /\ ~AutoGuard'
             /\ AutoDecision(messages') = "user"
       /\ RestartOnEmptyLog]_vars

\* C19: handleSend(content) called while isGenerating is false appends one
\* typed human turn with that content, which cannot be continued, and
\* issues one model-reply request for the whole new log; its response is
\* appended as a model turn, so that the log has grown by those two turns.
C19_SendAppendsAndReplies ==
    [][/\ (~isGenerating /\ Send) =>
             \E content \in UserTexts :
                 /\ messages' = Append(messages, UserMessage(content))
                 /\ LastOf(messages').role = "user"
                 /\ ~LastOf(messages').generatedByModel
                 /\ LastOf(messages').content = content
                 /\ LastOf(messages').terminating # "false"
                 /\ ~ContinueEligible(messages', Len(messages') - 1)
                 /\ ops = {}
                 /\ \E o \in ops' :
                       /\ ops' = {o}
                       /\ o.kind = "handleSend"
                       /\ o.stage = "assistant"
                       /\ o.request = TextRequest(messages', FALSE)
                       /\ o.request.messages = messages'
       /\ \A o \in ops, content \in ResponseTexts, terminating \in BOOLEAN :
             (o.kind = "handleSend" /\ RespondOk(o, content, terminating)) =>
                 /\ messages' = Append(messages,
                                   AssistantMessage(content, Flag(terminating)))
                 /\ Len(messages') = Len(o.start) + 2
                 /\ SameUpTo(messages', o.start, Len(o.start))
                 /\ messages'[Len(o.start) + 1].role = "user"
                 /\ ~messages'[Len(o.start) + 1].generatedByModel
                 /\ ops' = {}]_vars

C19_Witness ==
    /\ event = Event("handleSend", "response", FALSE)
    /\ Len(messages) = 4
    /\ messages[3] = UserMessage(<<"h">>)
    /\ messages[4].role = "assistant"
    /\ messages[4].terminating = "false"
    /\ ops = {}

\* C20: handleContinue on a last model turn with terminating = false issues
\* one request with is_partial true; its response leaves the number of
\* turns and every other turn unchanged, makes the turn's content the old
\* content followed by the returned content and its flag the returned flag,
\* and ends the operation without another request, whatever the flag.
C20_ContinueFoldsIntoTurn ==
    [][/\ ((Continue \/ AutoRunEffect) /\ ~isGenerating
              /\ event' \in {Event("handleContinue", "started", a) : a \in BOOLEAN}
              /\ LastOf(messages).role = "assistant") =>
             /\ messages' = messages
             /\ ops = {}
             /\ \E o \in ops' :
                   /\ ops' = {o}
                   /\ o.request = TextRequest(messages, TRUE)
                   /\ o.index = Some(Len(messages) - 1)
       /\ \A o \in ops, content \in ResponseTexts, terminating \in BOOLEAN :
             (o.stage = "continue" /\ o.isAssistantMessage
                 /\ RespondOk(o, content, terminating)) =>
                 LET i == o.index[1] + 1 IN
                 /\ ops = {o}
                 /\ ops' = {}
                 /\ ~isGenerating'
                 /\ error' = Null
                 /\ continuationIndex' = Null
                 /\ Len(messages') = Len(messages)
                 /\ i = Len(messages)
                 /\ messages[i].terminating = "false"
                 /\ messages'[i].role = "assistant"
                 /\ messages'[i].content = messages[i].content \o content
                 /\ messages'[i].terminating = Flag(terminating)
                 /\ SameUpTo(messages', messages, i - 1)]_vars

C20_Witness ==
    /\ event = Event("handleContinue", "response", FALSE)
    /\ LastOf(messages).role = "assistant"
    /\ LastOf(messages).content = <<"r", "r">>
    /\ LastOf(messages).terminating = "true"
    /\ ops = {}
    /\ ~isGenerating
    /\ error = Null

\* C21: when handleContinue extends a synthetic human turn and the response
\* has terminating = true, the model reply is requested in the same step
\* with isGenerating still true, and its response is appended right after
\* the continued turn; with terminating = false the operation ends without
\* a reply request.
C21_ContinuedHumanCascade ==
    /\ [](\A o \in ops : o.kind = "handleContinue" => isGenerating)
    /\ [][/\ \A o \in ops, content \in ResponseTexts, terminating \in BOOLEAN :
                (o.stage = "continue" /\ ~o.isAssistantMessage
                    /\ RespondOk(o, content, terminating)) =>
                    LET i == o.index[1] + 1 IN
                    /\ i = Len(messages)
                    /\ Len(messages') = Len(messages)
                    /\ messages'[i].role = "user"
                    /\ messages'[i].content = messages[i].content \o content
                    /\ messages'[i].terminating = Flag(terminating)
                    /\ IF terminating
                       THEN /\ isGenerating /\ isGenerating'
                            /\ \E o2 \in ops' :
                                  /\ ops' = {o2}
                                  /\ o2.kind = "handleContinue"
                                  /\ o2.stage = "assistant"
                                  /\ o2.request = TextRequest(messages', FALSE)
                       ELSE /\ ops' = {}
                            /\ ~isGenerating'
          /\ \A o \in ops, content \in ResponseTexts, terminating \in BOOLEAN :
                (o.kind = "handleContinue" /\ o.stage = "assistant"
                    /\ RespondOk(o, content, terminating)) =>
                    /\ isGenerating
                    /\ Len(messages) = o.index[1] + 1
                    /\ LastOf(messages).role = "user"
                    /\ LastOf(messages).generatedByModel
                    /\ LastOf(messages).terminating = "true"
                    /\ messages' = Append(messages,
                                      AssistantMessage(content, Flag(terminating)))
                    /\ ops' = {}]_vars

C21_Witness ==
    /\ event = Event("handleContinue", "response", FALSE)
    /\ ops = {}
    /\ Len(messages) >= 2
    /\ LastOf(messages).role = "assistant"
    /\ messages[Len(messages) - 1].role = "user"
    /\ messages[Len(messages) - 1].generatedByModel
    /\ messages[Len(messages) - 1].content = <<"r", "r">>
    /\ messages[Len(messages) - 1].terminating = "true"

\* C22: numTokens is an integer from 1 to 500 in every reachable state.
C22_TokenBudgetInRange ==
    /\ numTokens.den = 1
    /\ numTokens.num >= 1
    /\ numTokens.num <= MaxNumTokens

\* C23: a handler that passes its gate leaves error unset when it issues
\* its request, error stays unset while a request is outstanding, after
\* the operation error is unset or the message of that operation's failure,
\* and a handler stopped at its gate leaves error as it is.
C23_ErrorClearedAtStart ==
    /\ [](ops # {} => error = Null)
    /\ [][/\ (event'.result = "started"
                 /\ (Send \/ GenerateUserMessage \/ Continue \/ AutoRunEffect))
                => error' = Null
          /\ (event'.result = "threw"
                 /\ (Send \/ GenerateUserMessage \/ Continue))
                => error' = Some(NotEligible)
          /\ event'.result = "gated" => error' = error
          /\ event'.result = "response" =>
                \A o \in ops, content \in ResponseTexts, terminating \in BOOLEAN :
                    RespondOk(o, content, terminating) => error' = Null
          /\ event'.result = "failure" =>
                \A o \in ops, detail \in FailureDetails :
                    (Catches(o.kind) /\ RespondFail(o, detail))
                        => error' = Some(detail)]_vars

C23_Witness ==
    /\ event = Event("handleSend", "response", FALSE)
    /\ error = Null
    /\ ops = {}
    /\ Len(messages) = 3
    /\ messages[1] = UserMessage(<<"h">>)
    /\ messages[2] = UserMessage(<<"h">>)
    /\ messages[3].role = "assistant"

IsPrefix(a, b) == Len(a) <= Len(b) /\ SubSeq(b, 1, Len(a)) = a

\* C24: in every step that keeps the turn at index i in the log, the old
\* content of turn i is a prefix of its new content.
C24_TextOnlyAppended ==
    [][\A i \in 1..Len(messages) :
          i <= Len(messages') =>
              IsPrefix(messages[i].content, messages'[i].content)]_vars

\* C25: every turn with generatedByModel true has role user, and no step
\* changes the generatedByModel mark or the role of a turn it keeps.
C25_SyntheticIsHumanAndKept ==
    /\ [](\A i \in 1..Len(messages) :
             messages[i].generatedByModel => messages[i].role = "user")
    /\ [][\A i \in 1..Len(messages) :
             i <= Len(messages') =>
                 /\ messages'[i].generatedByModel = messages[i].generatedByModel
                 /\ messages'[i].role = messages[i].role]_vars

C25_Witness ==
    /\ event = Event("handleContinue", "response", FALSE)
    /\ LastOf(messages).role = "user"
    /\ LastOf(messages).generatedByModel
    /\ LastOf(messages).content = <<"r", "r">>

\* C26: whenever continuationIndex is set, isGenerating is true, the
\* request in flight has is_partial true and continuationIndex is the index
\* of the last turn; whenever no such request is in flight it is unset.
C26_ContinuationTargetOnlyWhileContinuing ==
    /\ continuationIndex # Null =>
          /\ isGenerating
          /\ \E o \in ops : o.request.is_partial
          /\ continuationIndex = Some(Len(messages) - 1)
    /\ (\A o \in ops : ~o.request.is_partial) => continuationIndex = Null

\* the turns appendToMessage extends
Extendable(msgs, index) ==
    /\ index >= 0
    /\ index < Len(msgs)
    /\ \/ msgs[index + 1].role = "assistant"
       \/ msgs[index + 1].role = "user" /\ msgs[index + 1].generatedByModel

\* C27: on a model turn or a synthetic human turn, appendToMessage(index,
\* content, terminating) makes the turn's content the old content followed
\* by content and its flag terminating, and leaves the number of turns,
\* every other turn and the turn's role and generatedByModel as they were;
\* on a model turn it is the store's appendToAssistantMessage.
C27_AppendToTurnConcatenates ==
    \A index \in Indices, content \in ResponseTexts, terminating \in BOOLEAN :
        Extendable(messages, index) =>
            LET r == appendToMessage(messages, index, content, Flag(terminating))
                i == index + 1
            IN /\ Len(r) = Len(messages)
               /\ r[i].content = messages[i].content \o content
               /\ r[i].terminating = Flag(terminating)
               /\ r[i].role = messages[i].role
               /\ r[i].generatedByModel = messages[i].generatedByModel
               /\ \A j \in 1..Len(messages) : j # i => r[j] = messages[j]
               /\ messages[i].role = "assistant" =>
                     r = appendToAssistantMessage(messages, index, content,
                                                  Flag(terminating))

C27_Witness ==
    /\ event = Event("handleContinue", "response", FALSE)
    /\ Len(messages) = 2
    /\ messages[1].role = "assistant"
    /\ messages[2].role = "assistant"
    /\ messages[2].content = <<"r", "r">>
    /\ messages[2].terminating = "true"

\* C28: appendToMessage and appendToAssistantMessage return the log as it
\* is when index is negative or not below the length of the log and when
\* the turn at index is a typed human turn; appendToAssistantMessage
\* extends model turns only, appendToMessage synthetic human turns as well.
C28_AppendToTurnNoOp ==
    \A index \in Indices, content \in ResponseTexts, terminating \in BOOLEAN :
        LET r == appendToMessage(messages, index, content, Flag(terminating))
            ra == appendToAssistantMessage(messages, index, content,
                                           Flag(terminating))
        IN /\ (index < 0 \/ index >= Len(messages)) =>
                 (r = messages /\ ra = messages)
           /\ (index >= 0 /\ index < Len(messages)
                  /\ messages[index + 1].role = "user"
                  /\ ~messages[index + 1].generatedByModel) =>
                 (r = messages /\ ra = messages)
           /\ r # messages => Extendable(messages, index)
           /\ ra # messages =>
                 (Extendable(messages, index)
                     /\ messages[index + 1].role = "assistant")

C28_Witness ==
    /\ event = Event("handleContinue", "threw", FALSE)
    /\ Len(messages) = 2
    /\ messages[1].role = "assistant"
    /\ messages[2] = UserMessage(<<"h">>)
    /\ appendToMessage(messages, 1, <<"r">>, "true") = messages
    /\ appendToMessage(messages, 0, <<"r">>, "true") # messages

\* C29: the transcript generateUserMessage sends is the log with every
\* role flipped, contents and order kept, after exactly one empty user
\* entry if and only if the flipped log is empty or starts with an
\* assistant entry; it is never empty and starts with a user entry.
C29_SwappedTranscript ==
    LET flipped == swapRoles(messages)
        sent == UserRequest(messages, FALSE).messages
        lead == <<[role |-> "user", content |-> <<>>]>>
    IN /\ Len(flipped) = Len(messages)
       /\ \A i \in 1..Len(messages) :
             /\ flipped[i].role # messages[i].role
             /\ flipped[i].role \in {"user", "assistant"}
             /\ flipped[i].content = messages[i].content
       /\ IF Len(flipped) = 0 \/ flipped[1].role = "assistant"
          THEN sent = lead \o flipped
          ELSE sent = flipped
       /\ Len(sent) > 0
       /\ sent[1].role = "user"
       /\ \A o \in ops :
             o.request.swapped =>
                 /\ Len(o.request.messages) > 0
                 /\ o.request.messages[1].role = "user"
                 /\ o.stage = "user" =>
                       o.request.messages \in {swapRoles(o.start),
                                               lead \o swapRoles(o.start)}

C29_Witness ==
    \E o \in ops :
        /\ o.stage = "user"
        /\ o.request.swapped
        /\ Len(o.start) = 2
        /\ o.start[1].role = "assistant"
        /\ o.request.messages = swapRoles(o.start)

Abs(v) == IF v < 0 THEN 0 - v ELSE v

\* C30: every request that generates or continues a synthetic human turn
\* carries an empty steering mapping, whatever pcValues is; every request
\* that generates or continues a model turn carries the entries of
\* pcValues that getPCValues keeps.
C30_SteeringOnlyForModelTurns ==
    [][\A o \in ops' \ ops :
          /\ o.request.swapped => o.request.pc_values = NoPCValues
          /\ ~o.request.swapped =>
                /\ o.request.pc_values = getPCValues
                /\ DOMAIN o.request.pc_values =
                       {i \in DOMAIN pcValues : Abs(pcValues[i]) > 1}
                /\ \A i \in DOMAIN o.request.pc_values :
                       o.request.pc_values[i] = pcValues[i]]_vars

C30_Witness ==
    /\ pcValues # DefaultPCValues
    /\ getPCValues # NoPCValues
    /\ getPCValues # pcValues
    /\ \E o \in ops :
          /\ o.request.swapped
          /\ o.request.is_partial
          /\ o.request.pc_values = NoPCValues

\* C31: the request handleContinue issues is a generateText request with
\* is_partial true when the target is a model turn and a generateUserMessage
\* request (roles swapped) with is_partial true when the target is a
\* synthetic human turn; a request that starts a new turn has is_partial
\* false.
C31_RequestShapeFromTarget ==
    [][\A o \in ops' \ ops :
          /\ o.stage = "continue" =>
                LET target == o.start[o.index[1] + 1] IN
                /\ o.request.is_partial
                /\ target.role = "assistant" => ~o.request.swapped
                /\ (target.role = "user" /\ target.generatedByModel)
                      => o.request.swapped
                /\ o.isAssistantMessage = (target.role = "assistant")
          /\ o.stage = "user" => (o.request.swapped /\ ~o.request.is_partial)
          /\ o.stage = "assistant" =>
                (~o.request.swapped /\ ~o.request.is_partial)]_vars

C31_Witness ==
    /\ event = Event("handleContinue", "started", FALSE)
    /\ \E o \in ops :
          /\ o.stage = "continue"
          /\ o.isAssistantMessage
          /\ o.request.is_partial
          /\ ~o.request.swapped
          /\ Len(o.start) = 4

\* the log with the flag of its last turn set to true
WithLastTerminating(msgs) == [msgs EXCEPT ![Len(msgs)].terminating = "true"]

UnsetLast(msgs) == Len(msgs) > 0 /\ LastOf(msgs).terminating = "undefined"

\* C32: for a log whose last turn has no terminating flag, handleContinue
\* on that turn fails as it does when the flag is true (no request, log
\* unchanged, error set), no Continue button is rendered, and runAuto decides
\* and does what it decides for the same log with the flag set to true.
C32_UnsetFlagIsTerminating ==
    /\ [](UnsetLast(messages) =>
             /\ AutoDecision(messages) = AutoDecision(WithLastTerminating(messages))
             /\ ~ContinueEligible(messages, Len(messages) - 1)
             /\ ~ContinueEligible(WithLastTerminating(messages), Len(messages) - 1)
             /\ ~canContinue(messages, Len(messages) - 1))
    /\ [][(UnsetLast(messages) /\ ~isGenerating) =>
             /\ ContinueAt(Len(messages) - 1) => ContinueFailed
             /\ (AutoRunEffect /\ ~AutoGuard) =>
                   /\ event'.name # "handleContinue"
                   /\ AutoDecision(WithLastTerminating(messages)) = "user" =>
                         \E o \in ops' : o.stage = "user"
                   /\ AutoDecision(WithLastTerminating(messages)) = "assistant" =>
                         \E o \in ops' : o.stage = "assistant"
                   /\ AutoDecision(WithLastTerminating(messages)) = "none" =>
                         ops' = ops]_vars

C32_Witness ==
    /\ event = Event("handleGenerateUserMessage", "started", TRUE)
    /\ Len(messages) = 2
    /\ messages[2].role = "assistant"
    /\ messages[2].terminating = "undefined"
    /\ \E o \in ops : o.stage = "user"

\* C33: every step leaves the log unchanged, appends one turn, extends the
\* content of one turn in place (its role and generatedByModel kept, its
\* flag possibly changed), removes the last turn, or empties the log.
C33_LogTransitions ==
    [][\/ messages' = messages
       \/ /\ Len(messages') = Len(messages) + 1
          /\ SubSeq(messages', 1, Len(messages)) = messages
       \/ /\ Len(messages') = Len(messages)
          /\ \E i \in 1..Len(messages) :
                /\ \A j \in 1..Len(messages) : j # i => messages'[j] = messages[j]
                /\ messages'[i].role = messages[i].role
                /\ messages'[i].generatedByModel = messages[i].generatedByModel
                /\ IsPrefix(messages[i].content, messages'[i].content)
       \/ /\ Len(messages) > 0
          /\ messages' = SubSeq(messages, 1, Len(messages) - 1)
       \/ messages' = <<>>]_vars

C35_ModelTurnFollowsHuman ==
    /\ Len(messages) > 0 => messages[1].role = "user"
    /\ \A i \in 2..Len(messages) :
          messages[i].role = "assistant" => messages[i - 1].role = "user"

C35_Witness ==
    /\ event = Event("handleGenerateUserMessage", "response", FALSE)
    /\ ops = {}
    /\ Len(messages) = 4
    /\ messages[2].role = "assistant"
    /\ messages[3].generatedByModel
    /\ messages[4].role = "assistant"

\* C36: no human turn follows a human turn.
C36_NoConsecutiveHumanTurns ==
    \A i \in 2..Len(messages) :
        messages[i].role = "user" => messages[i - 1].role = "assistant"

LastRole(transcript) == transcript[Len(transcript)].role

\* C37: every request with is_partial false has a transcript that ends in
\* a user entry, and every request with is_partial true one that ends in an
\* assistant entry, roles as sent.
C37_RequestWellFormed ==
    \A o \in ops :
        /\ Len(o.request.messages) > 0
        /\ ~o.request.is_partial => LastRole(o.request.messages) = "user"
        /\ o.request.is_partial => LastRole(o.request.messages) = "assistant"

\* the log has room, within MaxTurns and MaxText, for whatever runAuto starts
AutoRoom == Len(messages) + 2 <= MaxTurns /\ ExtraText(messages) < MaxText

\* C38: from every state with autoRun true, isGenerating false, error unset
\* and room left in the log, a request is eventually in flight unless
\* autoRun is switched off first.
C38_AutoRunAdvances ==
    (autoRun /\ ~isGenerating /\ error = Null /\ AutoRoom)
        ~> (ops # {} \/ ~autoRun)

C38_Witness ==
    /\ autoRun
    /\ event = Event("handleContinue", "started", TRUE)
    /\ Len(messages) = 2
    /\ \E o \in ops : o.stage = "continue"

\* the transcript the request of operation o carries for the log msgs
TranscriptOf(o, msgs) ==
    IF o.request.swapped THEN ensureValidSequence(swapRoles(msgs)) ELSE msgs

\* C39: while a request is in flight the log is the log its transcript was
\* built from and a continuation's index is the index of the last turn, and
\* a step taken while isGenerating is true changes the log only by folding
\* in a response: a new last turn, or new content at the end of the turn
\* the continuation targets, whose role and generatedByModel are kept.
C39_LogFrozenWhileGenerating ==
    /\ [](\A o \in ops :
             /\ o.request.messages = TranscriptOf(o, messages)
             /\ o.stage = "continue" =>
                   /\ o.index = Some(Len(messages) - 1)
                   /\ continuationIndex = o.index
                   /\ messages = o.start)
    /\ [][isGenerating =>
             \/ messages' = messages
             \/ /\ event'.result = "response"
                /\ \E o \in ops :
                      IF o.stage = "continue"
                      THEN /\ Len(messages') = Len(messages)
                           /\ \A j \in 1..Len(messages) :
                                 j # o.index[1] + 1 => messages'[j] = messages[j]
                           /\ LET old == messages[o.index[1] + 1]
                                  new == messages'[o.index[1] + 1]
                              IN /\ new.role = old.role
                                 /\ new.generatedByModel = old.generatedByModel
                                 /\ IsPrefix(old.content, new.content)
                      ELSE /\ Len(messages') = Len(messages) + 1
                           /\ SubSeq(messages', 1, Len(messages)) = messages]_vars

C39_Witness ==
    /\ event = Event("handleContinue", "response", FALSE)
    /\ isGenerating
    /\ Len(messages) = 3
    /\ messages[3].role = "user"
    /\ messages[3].content = <<"r", "r">>
    /\ \E o \in ops : o.stage = "assistant" /\ o.request.messages = messages

\* C40: while autoRun is false the effect changes nothing and every new
\* request comes from a button or from the operation already in flight,
\* whose chained reply is still issued; switching autoRun changes neither
\* the log, isGenerating, error, continuationIndex nor the requests in flight.
C40_AutoRunOffStartsNothing ==
    [][/\ autoRun' # autoRun =>
             UNCHANGED <<messages, isGenerating, error, continuationIndex, ops>>
       /\ (~autoRun /\ event'.auto /\ AutoRunEffect) =>
             /\ UNCHANGED <<messages, isGenerating, error, continuationIndex, ops>>
             /\ event'.result = "skipped"
       /\ (~autoRun /\ ops' \ ops # {}) =>
             /\ ~event'.auto
             /\ event'.result \in {"started", "response"}
             /\ event'.result = "started" => ops = {}
       /\ (~autoRun /\ event'.result = "response") =>
             \A o \in ops :
                 (o.stage = "user" /\ RespondOk(o, <<"r">>, TRUE)) =>
                     /\ isGenerating'
                     /\ \E o2 \in ops' :
                           /\ o2.stage = "assistant"
                           /\ o2.request.messages = messages']_vars

C40_Witness ==
    /\ ~autoRun
    /\ event = Event("effect", "skipped", TRUE)
    /\ ~isGenerating
    /\ error = Null
    /\ Len(messages) = 2
    /\ LastOf(messages).role = "assistant"
    /\ LastOf(messages).terminating = "true"
    /\ ops = {}

====
